---- MODULE Spec2Model ----
(***************************************************************************)
(* Pluggable frame evaluator and periodic-work protocol of the Pyjion      *)
(* patches to CPython: Patches/Python/Python/pylifecycle.c (evaluator      *)
(* installation in _Py_InitializeEx_Private) and                           *)
(* Patches/Python/Python/ceval.c (PULSE_GIL, _PyEval_PeriodicWork,         *)
(* PyEval_EvalFrameEx).                                                    *)
(***************************************************************************)
EXTENDS Integers, Sequences, FiniteSets, TLC

(* ------------------------ bounds and value sets ------------------------ *)

\* pending-call submissions in a behaviour of SpecQueue
MaxSubmit == 3

\* pending-call submissions in a behaviour of SpecWork
MaxCalls == 1

\* capacity of the pending-call ring
QueueCap == 2

\* the execution threads; thread 1 is the one that runs bring-up
Threads == {1, 2}

\* the null thread state / null pointer for thread-state valued cells
NoThread == 0

Exceptions == {"E1", "E2"}

Frames == {"f1", "f2"}

ThrowFlags == {0, 1}

(* ------------------------- evaluator module --------------------------- *)

\* the DLL that may or may not be on disk: absent, or present with any
\* subset of the two entry points exported
Modules ==
    {[present |-> FALSE, exports |-> {}]}
    \cup {[present |-> TRUE, exports |-> S] :
             S \in SUBSET {"EvalFrame", "JitInit"}}

VARIABLES
    module,         \* the pyjit.dll found (or not) by the loader
    ipc,            \* position of _Py_InitializeEx_Private
    pyjit,          \* HMODULE pyjit
    jitinit,        \* JitInitFunction jitinit
    eval_frame,     \* interp->eval_frame
    jitInitCalls,   \* number of times the module's JitInit has run
    fatal,          \* "" while the process lives, else why it died
    pc,             \* per thread: position
    frame,          \* per thread: the frame execution in progress
    tstate,         \* per thread: local tstate of _PyEval_PeriodicWork
    exc,            \* per thread: local exc of _PyEval_PeriodicWork
    ret,            \* per thread: value returned by _PyEval_PeriodicWork
    curexc,         \* per thread: the error indicator (tstate->curexc_type)
    steps,          \* per thread: stages the running check went through
    atEntry,        \* per thread: its slot when the running check began
    resignaled,     \* per thread: what it was last signaled with while its
                    \* check ran, or NULL
    arrival,        \* per thread: how the exception in its slot got there,
                    \* if signaled outside any check of the thread: "fresh"
                    \* into an empty slot, or the unconsumed exception it
                    \* replaced; else NULL
    async_exc,      \* per thread: tstate->async_exc
    gil_holder,     \* thread holding the GIL, or NoThread
    tstate_current, \* _PyThreadState_Current
    gil_drop_request,
    pendingcalls_to_do,
    pending_async_exc,
    eval_breaker,
    finalizing,     \* _Py_Finalizing
    queue,          \* the pending-call ring, oldest first
    executed,       \* pending calls run so far, in order
    submitted       \* per submitting thread: calls accepted so far

install_vars == <<module, ipc, pyjit, jitinit, eval_frame, jitInitCalls>>
local_vars == <<tstate, exc, ret, curexc, steps, atEntry, resignaled,
                arrival>>
flag_vars == <<gil_drop_request, pendingcalls_to_do, pending_async_exc,
               eval_breaker>>
gil_vars == <<gil_holder, tstate_current>>
queue_vars == <<queue, executed, submitted>>

vars == <<module, ipc, pyjit, jitinit, eval_frame, jitInitCalls, fatal, pc,
          frame, tstate, exc, ret, curexc, steps, atEntry, resignaled,
          arrival, async_exc, gil_holder, tstate_current, gil_drop_request,
          pendingcalls_to_do, pending_async_exc, eval_breaker, finalizing,
          queue, executed, submitted>>

(* --------------------------- pure helpers ----------------------------- *)

\* the evaluator PyInterpreterState_New leaves in interp->eval_frame
DefaultEvalFrame == "Default"

\* LoadLibrary("pyjit.dll")
LoadLibrary(m) == IF m.present THEN "pyjit" ELSE "NULL"

\* GetProcAddress(pyjit, name)
GetProcAddress(m, name) == IF name \in m.exports THEN name ELSE "NULL"

\* the function an EvalFrame address stands for
AsEvaluator(addr) == IF addr = "EvalFrame" THEN "Alt" ELSE "NULL"

\* what evaluator ev yields for (f, throwflag): output tagged by the evaluator
Evaluate(ev, f, throwflag) ==
    [by |-> ev, f |-> f, kind |-> IF throwflag = 1 THEN "error" ELSE "value"]

NoFrame == [active |-> FALSE]

Alive == fatal = ""

(* ------------------------------ Init ---------------------------------- *)

Init ==
    /\ module \in Modules
    /\ ipc = "load"
    /\ pyjit = "NULL"
    /\ jitinit = "unset"
    /\ eval_frame = DefaultEvalFrame
    /\ jitInitCalls = 0
    /\ fatal = ""
    /\ pc = [t \in Threads |-> "none"]
    /\ frame = [t \in Threads |-> NoFrame]
    /\ tstate = [t \in Threads |-> NoThread]
    /\ exc = [t \in Threads |-> "NULL"]
    /\ ret = [t \in Threads |-> 0]
    /\ curexc = [t \in Threads |-> "NULL"]
    /\ steps = [t \in Threads |-> <<>>]
    /\ atEntry = [t \in Threads |-> "NULL"]
    /\ resignaled = [t \in Threads |-> "NULL"]
    /\ arrival = [t \in Threads |-> "NULL"]
    /\ async_exc = [t \in Threads |-> "NULL"]
    /\ gil_holder = NoThread
    /\ tstate_current = NoThread
    /\ gil_drop_request = FALSE
    /\ pendingcalls_to_do = FALSE
    /\ pending_async_exc = FALSE
    /\ eval_breaker = FALSE
    /\ finalizing = NoThread
    /\ queue = <<>>
    /\ executed = <<>>
    /\ submitted = [t \in Threads |-> 0]

(* ----------------- _Py_InitializeEx_Private (pylifecycle.c) ------------ *)

rest_vars == <<fatal, pc, frame, local_vars, async_exc, gil_vars, flag_vars,
               finalizing, queue_vars>>

\* HMODULE pyjit = LoadLibrary("pyjit.dll"); if (pyjit != NULL) {
InitLoad ==
    /\ Alive /\ ipc = "load"
    /\ pyjit' = LoadLibrary(module)
    /\ ipc' = IF pyjit' # "NULL" THEN "getEval" ELSE "newThread"
    /\ UNCHANGED <<module, jitinit, eval_frame, jitInitCalls, rest_vars>>

\* interp->eval_frame = GetProcAddress(pyjit, "EvalFrame");
\* if (interp->eval_frame != NULL) {
InitGetEvalFrame ==
    /\ Alive /\ ipc = "getEval"
    /\ eval_frame' = AsEvaluator(GetProcAddress(module, "EvalFrame"))
    /\ ipc' = IF eval_frame' # "NULL" THEN "getInit" ELSE "newThread"
    /\ UNCHANGED <<module, pyjit, jitinit, jitInitCalls, rest_vars>>

\* JitInitFunction jitinit = GetProcAddress(pyjit, "JitInit");
InitGetJitInit ==
    /\ Alive /\ ipc = "getInit"
    /\ jitinit' = GetProcAddress(module, "JitInit")
    /\ ipc' = "callInit"
    /\ UNCHANGED <<module, pyjit, eval_frame, jitInitCalls, rest_vars>>

\* the call of jitinit() left out
InitCallJitInit_NoCall ==
    /\ Alive /\ ipc = "callInit"
    /\ ipc' = "newThread"
    /\ UNCHANGED <<module, pyjit, jitinit, eval_frame, jitInitCalls,
                   rest_vars>>

\* jitinit();  -- a call through a null pointer when the name is missing:
\* the process dies, or the call comes back having run nothing
InitCallJitInit ==
    /\ Alive /\ ipc = "callInit"
    /\ IF jitinit # "NULL"
         THEN /\ jitInitCalls' = jitInitCalls + 1
              /\ ipc' = "newThread"
              /\ UNCHANGED fatal
         ELSE /\ UNCHANGED jitInitCalls
              /\ \/ fatal' = "null call" /\ UNCHANGED ipc
                 \/ ipc' = "newThread" /\ UNCHANGED fatal
    /\ UNCHANGED <<module, pyjit, jitinit, eval_frame, pc, frame, local_vars,
                   async_exc, gil_vars, flag_vars, finalizing, queue_vars>>

\* tstate = PyThreadState_New(interp);
\* if (tstate == NULL) Py_FatalError("Py_Initialize: can't make first thread");
\* on success the first thread becomes the current thread and runs
InitNewThread ==
    /\ Alive /\ ipc = "newThread"
    /\ \/ /\ pc' = [pc EXCEPT ![1] = "run"]
          /\ gil_holder' = 1
          /\ tstate_current' = 1
          /\ ipc' = "done"
          /\ UNCHANGED fatal
       \/ /\ fatal' = "can't make first thread"
          /\ UNCHANGED <<pc, gil_vars, ipc>>
    /\ UNCHANGED <<module, pyjit, jitinit, eval_frame, jitInitCalls, frame,
                   local_vars, async_exc, flag_vars, finalizing, queue_vars>>

(* ----------------------- PyEval_EvalFrameEx (ceval.c) ------------------ *)

\* the frame handed to PyEval_EvalFrameDefault whatever is installed
EvalFrameEx_AlwaysDefault(t, f, throwflag) ==
    /\ Alive /\ pc[t] = "run" /\ tstate_current = t
    /\ frame' = [frame EXCEPT ![t] =
          [active |-> TRUE, reqF |-> f, reqFlag |-> throwflag,
           returned |-> Evaluate("Default", f, throwflag)]]
    /\ pc' = [pc EXCEPT ![t] = "frame"]
    /\ UNCHANGED <<install_vars, fatal, local_vars, async_exc, gil_vars,
                   flag_vars, finalizing, queue_vars>>

\* a null eval_frame repaired on first use
EvalFrameEx_LazyDefault(t, f, throwflag) ==
    /\ Alive /\ pc[t] = "run" /\ tstate_current = t
    /\ eval_frame' = IF eval_frame = "NULL" THEN "Default" ELSE eval_frame
    /\ frame' = [frame EXCEPT ![t] =
          [active |-> TRUE, reqF |-> f, reqFlag |-> throwflag,
           returned |-> Evaluate(eval_frame', f, throwflag)]]
    /\ pc' = [pc EXCEPT ![t] = "frame"]
    /\ UNCHANGED <<module, ipc, pyjit, jitinit, jitInitCalls, fatal,
                   local_vars, async_exc, gil_vars, flag_vars, finalizing,
                   queue_vars>>

\* PyThreadState *tstate = PyThreadState_GET();
\* return tstate->interp->eval_frame(f, throwflag);
\* A null eval_frame makes this a call through a null pointer.
EvalFrameEx(t, f, throwflag) ==
    /\ Alive /\ pc[t] = "run" /\ tstate_current = t
    /\ IF eval_frame # "NULL"
         THEN /\ frame' = [frame EXCEPT ![t] =
                    [active |-> TRUE, reqF |-> f, reqFlag |-> throwflag,
                     returned |-> Evaluate(eval_frame, f, throwflag)]]
              /\ pc' = [pc EXCEPT ![t] = "frame"]
              /\ UNCHANGED fatal
         ELSE /\ fatal' = "null call"
              /\ UNCHANGED <<frame, pc>>
    /\ UNCHANGED <<install_vars, local_vars, async_exc, gil_vars, flag_vars,
                   finalizing, queue_vars>>

\* the caller takes the result and goes on
FrameReturn(t) ==
    /\ Alive /\ pc[t] = "frame"
    /\ frame' = [frame EXCEPT ![t] = NoFrame]
    /\ pc' = [pc EXCEPT ![t] = "run"]
    /\ UNCHANGED <<install_vars, fatal, local_vars, async_exc, gil_vars,
                   flag_vars, finalizing, queue_vars>>

(* ------------------- threads and the lock (environment) --------------- *)

Created(t) == pc[t] \notin {"none", "exited"}

\* calls accepted so far: each is in the ring or has been run
SumSubmitted == Len(queue) + Len(executed)

\* eval_breaker as the bit-or of the three conditions
ComputeEvalBreaker(drop, pending, async) == drop \/ pending \/ async

\* a running thread starts another thread; the new thread has a thread
\* state and waits for the lock
NewThread(s, t) ==
    /\ Alive /\ pc[s] = "run" /\ pc[t] = "none"
    /\ pc' = [pc EXCEPT ![t] = "wait"]
    /\ UNCHANGED <<install_vars, fatal, frame, local_vars, async_exc,
                   gil_vars, flag_vars, finalizing, queue_vars>>

\* take_gil(tstate): blocks until the lock is free; the taker clears a
\* release request it finds, and raises the attention flag again if its own
\* async-exception slot is set (the flag is re-checked on acquiring the lock)
TakeGilEnabled == gil_holder = NoThread

TakeGil(t) ==
    /\ gil_holder' = t
    /\ gil_drop_request' = FALSE
    /\ pending_async_exc' = (pending_async_exc \/ async_exc[t] # "NULL")
    /\ eval_breaker' = IF async_exc[t] # "NULL"
                         THEN TRUE
                         ELSE IF gil_drop_request
                                THEN ComputeEvalBreaker(FALSE,
                                        pendingcalls_to_do, pending_async_exc)
                                ELSE eval_breaker
    /\ UNCHANGED pendingcalls_to_do

\* drop_gil(tstate)
DropGil(t) == gil_holder' = NoThread

\* a new thread acquires the lock and makes itself current
AcquireThread(t) ==
    /\ Alive /\ pc[t] = "wait" /\ TakeGilEnabled
    /\ TakeGil(t)
    /\ tstate_current' = t
    /\ pc' = [pc EXCEPT ![t] = "run"]
    /\ UNCHANGED <<install_vars, fatal, frame, local_vars, async_exc,
                   finalizing, queue_vars>>

\* lock release is requested (interval timer of a waiter)
RequestDrop ==
    /\ Alive /\ ipc = "done" /\ ~gil_drop_request
    /\ gil_drop_request' = TRUE
    /\ eval_breaker' = TRUE
    /\ UNCHANGED <<install_vars, fatal, pc, frame, local_vars, async_exc,
                   gil_vars, pendingcalls_to_do, pending_async_exc,
                   finalizing, queue_vars>>

\* submit(callable, arg) by thread s: success, or queue_full with no effect;
\* the environment submits at most budget calls
Submit(s, budget) ==
    /\ Alive /\ Created(s) /\ SumSubmitted < budget
    /\ IF Len(queue) < QueueCap
         THEN /\ queue' = Append(queue, [s |-> s, n |-> submitted[s] + 1])
              /\ submitted' = [submitted EXCEPT ![s] = @ + 1]
              /\ pendingcalls_to_do' = TRUE
              /\ eval_breaker' = TRUE
         ELSE UNCHANGED <<queue, submitted, pendingcalls_to_do, eval_breaker>>
    /\ UNCHANGED <<install_vars, fatal, pc, frame, local_vars, async_exc,
                   gil_vars, gil_drop_request, pending_async_exc, finalizing,
                   executed>>

\* thread t is inside _PyEval_PeriodicWork
InCheck(t) == pc[t] \notin {"none", "wait", "run", "frame", "exited"}

\* how the exception in target's slot got there once e is signaled: during
\* a check of target nothing is noted here (resignaled notes it); outside a
\* check e comes fresh into an empty slot, or replaces the unconsumed
\* exception still in it
Arrival(target, e) ==
    IF InCheck(target)
      THEN "NULL"
      ELSE IF async_exc[target] = "NULL"
             THEN "fresh"
             ELSE IF async_exc[target] # e
                    THEN async_exc[target]
                    ELSE IF arrival[target] = "NULL" THEN "fresh"
                                                     ELSE arrival[target]

\* signal(thread_handle, exception): overwrites the slot, last writer wins
Signal(target, e) ==
    /\ Alive /\ Created(target)
    /\ async_exc' = [async_exc EXCEPT ![target] = e]
    /\ pending_async_exc' = TRUE
    /\ eval_breaker' = TRUE
    /\ resignaled' = [resignaled EXCEPT ![target] =
                          IF InCheck(target) THEN e ELSE @]
    /\ arrival' = [arrival EXCEPT ![target] =
                           Arrival(target, e)]
    /\ UNCHANGED <<install_vars, fatal, pc, frame, tstate, exc, ret, curexc,
                   steps, atEntry, gil_vars, gil_drop_request,
                   pendingcalls_to_do, finalizing, queue_vars>>

\* begin_finalization(thread_handle): once, by the running thread
BeginFinalization(t) ==
    /\ Alive /\ pc[t] = "run" /\ finalizing = NoThread
    /\ finalizing' = t
    /\ UNCHANGED <<install_vars, fatal, pc, frame, local_vars, async_exc,
                   gil_vars, flag_vars, queue_vars>>

(* --------------------- _PyEval_PeriodicWork (ceval.c) ------------------ *)

Log(t, stage) ==
    IF steps[t] # <<>> /\ steps[t][Len(steps[t])] = stage
      THEN steps
      ELSE [steps EXCEPT ![t] = Append(@, stage)]

\* the async-exception block ahead of PULSE_GIL
StageOrder_AsyncFirst == <<"pending", "tstate", "async", "pulse">>

\* the order of the blocks inside if (eval_breaker) { ... }
StageOrder == <<"pending", "tstate", "pulse", "async">>

StageEntry(stage) ==
    CASE stage = "pending" -> "pw_pending"
      [] stage = "tstate" -> "pw_tstate"
      [] stage = "pulse" -> "pulse_check"
      [] stage = "async" -> "ae_test"

\* where control goes when a block falls through: the next block, or the
\* return 0 that ends the function
After(stage) ==
    LET i == CHOOSE k \in 1..Len(StageOrder) : StageOrder[k] = stage
    IN  IF i = Len(StageOrder) THEN "ret" ELSE StageEntry(StageOrder[i + 1])

\* the result of Py_MakePendingCalls ignored
AfterPendingCalls_Ignored(r) == After("pending")

\* if (Py_MakePendingCalls() < 0) { return 1; }
AfterPendingCalls(r) == IF r < 0 THEN "ret" ELSE After("pending")

\* the attention flag not consulted: every check does the full work
PWEnter_NoFastPath(t) ==
    /\ Alive /\ pc[t] = "run"
    /\ pc' = [pc EXCEPT ![t] = StageEntry(StageOrder[1])]
    /\ atEntry' = [atEntry EXCEPT ![t] = async_exc[t]]
    /\ UNCHANGED <<install_vars, fatal, frame, tstate, exc, ret, curexc, steps,
                   resignaled, arrival, async_exc, gil_vars, flag_vars,
                   finalizing, queue_vars>>

\* if (_Py_atomic_load_relaxed(&eval_breaker)) { ... } return 0;
PWEnter(t) ==
    /\ Alive /\ pc[t] = "run"
    /\ IF eval_breaker
         THEN pc' = [pc EXCEPT ![t] = StageEntry(StageOrder[1])]
         ELSE pc' = [pc EXCEPT ![t] = "ret"]
    /\ atEntry' = [atEntry EXCEPT ![t] = async_exc[t]]
    /\ UNCHANGED <<install_vars, fatal, frame, tstate, exc, ret, curexc, steps,
                   resignaled, arrival, async_exc, gil_vars, flag_vars,
                   finalizing, queue_vars>>

\* if (_Py_atomic_load_relaxed(&pendingcalls_to_do)) {
PWPending(t) ==
    /\ Alive /\ pc[t] = "pw_pending"
    /\ pc' = [pc EXCEPT ![t] = IF pendingcalls_to_do THEN "pw_drain"
                                                     ELSE After("pending")]
    /\ UNCHANGED <<install_vars, fatal, frame, local_vars, async_exc,
                   gil_vars, flag_vars, finalizing, queue_vars>>

\* a call that fails left on the ring
MakePendingCalls_KeepFailed(t, res) ==
    IF queue = <<>>
      THEN /\ pendingcalls_to_do' = FALSE
           /\ eval_breaker' = ComputeEvalBreaker(gil_drop_request, FALSE,
                                                 pending_async_exc)
           /\ UNCHANGED <<queue, executed, curexc>>
      ELSE /\ queue' = IF res < 0 THEN queue ELSE Tail(queue)
           /\ executed' = Append(executed, Head(queue))
           /\ curexc' = [curexc EXCEPT ![t] =
                            IF res < 0 THEN "CallError" ELSE @]
           /\ UNCHANGED <<pendingcalls_to_do, eval_breaker>>

\* Py_MakePendingCalls(), one turn of its loop: the oldest call is taken
\* off the ring and run, res being what the call returns; finding the ring
\* empty clears the pending-calls flag
MakePendingCalls(t, res) ==
    IF queue = <<>>
      THEN /\ pendingcalls_to_do' = FALSE
           /\ eval_breaker' = ComputeEvalBreaker(gil_drop_request, FALSE,
                                                 pending_async_exc)
           /\ UNCHANGED <<queue, executed, curexc>>
      ELSE /\ queue' = Tail(queue)
           /\ executed' = Append(executed, Head(queue))
           /\ curexc' = [curexc EXCEPT ![t] =
                            IF res < 0 THEN "CallError" ELSE @]
           /\ UNCHANGED <<pendingcalls_to_do, eval_breaker>>

\* if (Py_MakePendingCalls() < 0) { return 1; }
PWDrain(t) ==
    /\ Alive /\ pc[t] = "pw_drain"
    /\ steps' = Log(t, "drain")
    /\ \E res \in {-1, 0} :
          /\ MakePendingCalls(t, res)
          /\ IF queue = <<>>
               THEN pc' = [pc EXCEPT ![t] = AfterPendingCalls(0)]
                    /\ UNCHANGED ret
               ELSE IF res < 0
                      THEN /\ pc' = [pc EXCEPT ![t] = AfterPendingCalls(res)]
                           /\ ret' = [ret EXCEPT ![t] = 1]
                      ELSE UNCHANGED <<pc, ret>>
    /\ UNCHANGED <<install_vars, fatal, frame, tstate, exc, atEntry,
                   resignaled, arrival, async_exc, gil_vars,
                   gil_drop_request, pending_async_exc, finalizing, submitted>>

\* PyThreadState* tstate = PyThreadState_GET();
PWGetTstate(t) ==
    /\ Alive /\ pc[t] = "pw_tstate"
    /\ tstate' = [tstate EXCEPT ![t] = tstate_current]
    /\ pc' = [pc EXCEPT ![t] = After("tstate")]
    /\ UNCHANGED <<install_vars, fatal, frame, exc, ret, curexc, steps,
                   atEntry, resignaled, arrival, async_exc, gil_vars,
                   flag_vars, finalizing, queue_vars>>

(* ------------------------------ PULSE_GIL ------------------------------ *)

\* the lock handed over at every safe point, requested or not
PulseCheck_Always(t) ==
    /\ Alive /\ pc[t] = "pulse_check"
    /\ steps' = Log(t, "pulse")
    /\ pc' = [pc EXCEPT ![t] = "pulse_swap"]
    /\ UNCHANGED <<install_vars, atEntry, resignaled, arrival, fatal,
                   frame, tstate, exc, ret, curexc, async_exc, gil_vars,
                   flag_vars, finalizing, queue_vars>>

\* if (_Py_atomic_load_relaxed(&gil_drop_request)) {
PulseCheck(t) ==
    /\ Alive /\ pc[t] = "pulse_check"
    /\ steps' = Log(t, "pulse")
    /\ pc' = [pc EXCEPT ![t] = IF gil_drop_request THEN "pulse_swap"
                                                   ELSE After("pulse")]
    /\ UNCHANGED <<install_vars, atEntry, resignaled, arrival, fatal,
                   frame, tstate, exc, ret, curexc, async_exc, gil_vars,
                   flag_vars, finalizing, queue_vars>>

\* the thread left registered as current while it gives the lock away
PulseSwapOut_NoSwap(t) ==
    /\ Alive /\ pc[t] = "pulse_swap"
    /\ steps' = Log(t, "pulse")
    /\ pc' = [pc EXCEPT ![t] = "pulse_drop"]
    /\ UNCHANGED <<install_vars, atEntry, resignaled, arrival, fatal,
                   frame, tstate, exc, ret, curexc, async_exc, gil_vars,
                   flag_vars, finalizing, queue_vars>>

\* if (PyThreadState_Swap(NULL) != tstate)
\*     Py_FatalError("ceval: tstate mix-up");
PulseSwapOut(t) ==
    /\ Alive /\ pc[t] = "pulse_swap"
    /\ steps' = Log(t, "pulse")
    /\ tstate_current' = NoThread
    /\ IF tstate_current # tstate[t]
         THEN fatal' = "ceval: tstate mix-up" /\ UNCHANGED pc
         ELSE pc' = [pc EXCEPT ![t] = "pulse_drop"] /\ UNCHANGED fatal
    /\ UNCHANGED <<install_vars, atEntry, resignaled, arrival, frame,
                   tstate, exc, ret, curexc, async_exc, gil_holder, flag_vars,
                   finalizing, queue_vars>>

\* the lock kept across the handshake
PulseDrop_NoDrop(t) ==
    /\ Alive /\ pc[t] = "pulse_drop"
    /\ steps' = Log(t, "pulse")
    /\ pc' = [pc EXCEPT ![t] = "pulse_take"]
    /\ UNCHANGED <<install_vars, atEntry, resignaled, arrival, fatal,
                   frame, tstate, exc, ret, curexc, async_exc, gil_vars,
                   flag_vars, finalizing, queue_vars>>

\* drop_gil(tstate);
PulseDrop(t) ==
    /\ Alive /\ pc[t] = "pulse_drop"
    /\ steps' = Log(t, "pulse")
    /\ DropGil(tstate[t])
    /\ pc' = [pc EXCEPT ![t] = "pulse_take"]
    /\ UNCHANGED <<install_vars, atEntry, resignaled, arrival, fatal,
                   frame, tstate, exc, ret, curexc, async_exc, tstate_current,
                   flag_vars, finalizing, queue_vars>>

\* the thread going on without the lock
PulseTake_NoTake(t) ==
    /\ Alive /\ pc[t] = "pulse_take"
    /\ steps' = Log(t, "pulse")
    /\ pc' = [pc EXCEPT ![t] = "pulse_fin"]
    /\ UNCHANGED <<install_vars, atEntry, resignaled, arrival, fatal,
                   frame, tstate, exc, ret, curexc, async_exc, gil_vars,
                   flag_vars, finalizing, queue_vars>>

\* take_gil(tstate);
PulseTake(t) ==
    /\ Alive /\ pc[t] = "pulse_take" /\ TakeGilEnabled
    /\ steps' = Log(t, "pulse")
    /\ TakeGil(tstate[t])
    /\ pc' = [pc EXCEPT ![t] = "pulse_fin"]
    /\ UNCHANGED <<install_vars, atEntry, resignaled, arrival, fatal,
                   frame, tstate, exc, ret, curexc, async_exc, tstate_current,
                   finalizing, queue_vars>>

\* the quick-exit test left out: the thread always goes on
PulseFinalizing_NoExit(t) ==
    /\ Alive /\ pc[t] = "pulse_fin"
    /\ pc' = [pc EXCEPT ![t] = "pulse_reswap"]
    /\ steps' = Log(t, "pulse")
    /\ UNCHANGED <<install_vars, fatal, frame, tstate, exc, ret, curexc,
                   atEntry, resignaled, arrival, async_exc, gil_vars,
                   flag_vars, finalizing, queue_vars>>

\* if (_Py_Finalizing && _Py_Finalizing != tstate) {
\*     drop_gil(tstate); PyThread_exit_thread(); }
PulseFinalizing(t) ==
    /\ Alive /\ pc[t] = "pulse_fin"
    /\ IF finalizing # NoThread /\ finalizing # tstate[t]
         THEN /\ DropGil(tstate[t])
              /\ pc' = [pc EXCEPT ![t] = "exited"]
              /\ tstate' = [tstate EXCEPT ![t] = NoThread]
              /\ steps' = [steps EXCEPT ![t] = <<>>]
              /\ atEntry' = [atEntry EXCEPT ![t] = "NULL"]
              /\ resignaled' = [resignaled EXCEPT ![t] = "NULL"]
              /\ arrival' = [arrival EXCEPT ![t] = "NULL"]
         ELSE /\ pc' = [pc EXCEPT ![t] = "pulse_reswap"]
              /\ steps' = Log(t, "pulse")
              /\ UNCHANGED <<gil_holder, tstate, atEntry, resignaled,
                             arrival>>
    /\ UNCHANGED <<install_vars, fatal, frame, exc, ret, curexc, async_exc,
                   tstate_current, flag_vars, finalizing, queue_vars>>

\* if (PyThreadState_Swap(tstate) != NULL)
\*     Py_FatalError("ceval: orphan tstate");
PulseSwapIn(t) ==
    /\ Alive /\ pc[t] = "pulse_reswap"
    /\ steps' = Log(t, "pulse")
    /\ tstate_current' = tstate[t]
    /\ IF tstate_current # NoThread
         THEN fatal' = "ceval: orphan tstate" /\ UNCHANGED pc
         ELSE pc' = [pc EXCEPT ![t] = After("pulse")] /\ UNCHANGED fatal
    /\ UNCHANGED <<install_vars, atEntry, resignaled, arrival, frame,
                   tstate, exc, ret, curexc, async_exc, gil_holder, flag_vars,
                   finalizing, queue_vars>>

(* ------------------------- async-exception step ------------------------ *)

\* UNSIGNAL_ASYNC_EXC()
UnsignalAsyncExc ==
    /\ pending_async_exc' = FALSE
    /\ eval_breaker' = ComputeEvalBreaker(gil_drop_request, pendingcalls_to_do,
                                          FALSE)
    /\ UNCHANGED <<gil_drop_request, pendingcalls_to_do>>

\* if (tstate->async_exc != NULL) { ... } return 0;
AsyncTest(t) ==
    /\ Alive /\ pc[t] = "ae_test"
    /\ steps' = Log(t, "async")
    /\ IF async_exc[tstate[t]] # "NULL"
         THEN /\ pc' = [pc EXCEPT ![t] = "ae_read"]
              /\ UNCHANGED ret
         ELSE /\ pc' = [pc EXCEPT ![t] = After("async")]
              /\ UNCHANGED ret
    /\ UNCHANGED <<install_vars, fatal, frame, tstate, exc, curexc, atEntry,
                   resignaled, arrival, async_exc, gil_vars, flag_vars,
                   finalizing, queue_vars>>

\* PyObject *exc = tstate->async_exc;
AsyncRead(t) ==
    /\ Alive /\ pc[t] = "ae_read"
    /\ steps' = Log(t, "async")
    /\ exc' = [exc EXCEPT ![t] = async_exc[tstate[t]]]
    /\ pc' = [pc EXCEPT ![t] = "ae_clear"]
    /\ UNCHANGED <<install_vars, atEntry, resignaled, arrival, fatal,
                   frame, tstate, ret, curexc, async_exc, gil_vars, flag_vars,
                   finalizing, queue_vars>>

\* the slot left as it is
AsyncClear_NoClear(t) ==
    /\ Alive /\ pc[t] = "ae_clear"
    /\ steps' = Log(t, "async")
    /\ pc' = [pc EXCEPT ![t] = "ae_unsignal"]
    /\ UNCHANGED <<install_vars, atEntry, resignaled, arrival, fatal,
                   frame, tstate, exc, ret, curexc, async_exc, gil_vars,
                   flag_vars, finalizing, queue_vars>>

\* tstate->async_exc = NULL;
AsyncClear(t) ==
    /\ Alive /\ pc[t] = "ae_clear"
    /\ steps' = Log(t, "async")
    /\ async_exc' = [async_exc EXCEPT ![tstate[t]] = "NULL"]
    /\ pc' = [pc EXCEPT ![t] = "ae_unsignal"]
    /\ UNCHANGED <<install_vars, atEntry, resignaled, arrival, fatal,
                   frame, tstate, exc, ret, curexc, gil_vars, flag_vars,
                   finalizing, queue_vars>>

\* UNSIGNAL_ASYNC_EXC();
AsyncUnsignal(t) ==
    /\ Alive /\ pc[t] = "ae_unsignal"
    /\ steps' = Log(t, "async")
    /\ UnsignalAsyncExc
    /\ pc' = [pc EXCEPT ![t] = "ae_raise"]
    /\ UNCHANGED <<install_vars, atEntry, resignaled, arrival, fatal,
                   frame, tstate, exc, ret, curexc, async_exc, gil_vars,
                   finalizing, queue_vars>>

\* PyErr_SetNone(exc); Py_DECREF(exc); return 1;
AsyncRaise(t) ==
    /\ Alive /\ pc[t] = "ae_raise"
    /\ steps' = Log(t, "async")
    /\ curexc' = [curexc EXCEPT ![t] = exc[t]]
    /\ ret' = [ret EXCEPT ![t] = 1]
    /\ pc' = [pc EXCEPT ![t] = "ret"]
    /\ UNCHANGED <<install_vars, atEntry, resignaled, arrival, fatal,
                   frame, tstate, exc, async_exc, gil_vars, flag_vars,
                   finalizing, queue_vars>>

\* the caller of _PyEval_PeriodicWork takes the result (on 1 it unwinds with
\* the error set) and the thread runs on
PWReturn(t) ==
    /\ Alive /\ pc[t] = "ret"
    /\ pc' = [pc EXCEPT ![t] = "run"]
    /\ tstate' = [tstate EXCEPT ![t] = NoThread]
    /\ exc' = [exc EXCEPT ![t] = "NULL"]
    /\ ret' = [ret EXCEPT ![t] = 0]
    /\ curexc' = [curexc EXCEPT ![t] = "NULL"]
    /\ steps' = [steps EXCEPT ![t] = <<>>]
    /\ atEntry' = [atEntry EXCEPT ![t] = "NULL"]
    /\ resignaled' = [resignaled EXCEPT ![t] = "NULL"]
    /\ arrival' = [arrival EXCEPT ![t] =
                           IF async_exc[t] = atEntry[t]
                                 /\ resignaled[t] = "NULL"
                             THEN @ ELSE "NULL"]
    /\ UNCHANGED <<install_vars, fatal, frame, async_exc, gil_vars,
                   flag_vars, finalizing, queue_vars>>

\* bring-up, frame dispatch and the threads taking turns at the lock
Next ==
    \/ InitLoad
    \/ InitGetEvalFrame
    \/ InitGetJitInit
    \/ InitCallJitInit
    \/ InitNewThread
    \/ \E t \in Threads, f \in Frames, fl \in ThrowFlags : EvalFrameEx(t, f, fl)
    \/ \E t \in Threads : FrameReturn(t)
    \/ \E s, t \in Threads : NewThread(s, t)
    \/ \E t \in Threads : AcquireThread(t)
    \/ RequestDrop
    \/ \E t \in Threads : PWEnter(t)
    \/ \E t \in Threads : PWPending(t)
    \/ \E t \in Threads : PWGetTstate(t)
    \/ \E t \in Threads : PulseCheck(t)
    \/ \E t \in Threads : PulseSwapOut(t)
    \/ \E t \in Threads : PulseDrop(t)
    \/ \E t \in Threads : PulseTake(t)
    \/ \E t \in Threads : PulseFinalizing(t)
    \/ \E t \in Threads : PulseSwapIn(t)
    \/ \E t \in Threads : AsyncTest(t)
    \/ \E t \in Threads : PWReturn(t)

Spec == Init /\ [][Next]_vars

\* the interpreter once bring-up is over, no pyjit.dll having been found
InitWork ==
    /\ module = [present |-> FALSE, exports |-> {}]
    /\ ipc = "done"
    /\ pyjit = "NULL"
    /\ jitinit = "unset"
    /\ eval_frame = DefaultEvalFrame
    /\ jitInitCalls = 0
    /\ fatal = ""
    /\ pc = [t \in Threads |-> IF t = 1 THEN "run" ELSE "none"]
    /\ frame = [t \in Threads |-> NoFrame]
    /\ tstate = [t \in Threads |-> NoThread]
    /\ exc = [t \in Threads |-> "NULL"]
    /\ ret = [t \in Threads |-> 0]
    /\ curexc = [t \in Threads |-> "NULL"]
    /\ steps = [t \in Threads |-> <<>>]
    /\ atEntry = [t \in Threads |-> "NULL"]
    /\ resignaled = [t \in Threads |-> "NULL"]
    /\ arrival = [t \in Threads |-> "NULL"]
    /\ async_exc = [t \in Threads |-> "NULL"]
    /\ gil_holder = 1
    /\ tstate_current = 1
    /\ gil_drop_request = FALSE
    /\ pendingcalls_to_do = FALSE
    /\ pending_async_exc = FALSE
    /\ eval_breaker = FALSE
    /\ finalizing = NoThread
    /\ queue = <<>>
    /\ executed = <<>>
    /\ submitted = [t \in Threads |-> 0]

\* the periodic work check under submissions, signals, release requests and
\* finalization
NextWork ==
    \/ \E s, t \in Threads : NewThread(s, t)
    \/ \E t \in Threads : AcquireThread(t)
    \/ RequestDrop
    \/ \E s \in Threads : Submit(s, MaxCalls)
    \/ \E t \in Threads, e \in Exceptions : Signal(t, e)
    \/ \E t \in Threads : BeginFinalization(t)
    \/ \E t \in Threads : PWEnter(t)
    \/ \E t \in Threads : PWPending(t)
    \/ \E t \in Threads : PWDrain(t)
    \/ \E t \in Threads : PWGetTstate(t)
    \/ \E t \in Threads : PulseCheck(t)
    \/ \E t \in Threads : PulseSwapOut(t)
    \/ \E t \in Threads : PulseDrop(t)
    \/ \E t \in Threads : PulseTake(t)
    \/ \E t \in Threads : PulseFinalizing(t)
    \/ \E t \in Threads : PulseSwapIn(t)
    \/ \E t \in Threads : AsyncTest(t)
    \/ \E t \in Threads : AsyncRead(t)
    \/ \E t \in Threads : AsyncClear(t)
    \/ \E t \in Threads : AsyncUnsignal(t)
    \/ \E t \in Threads : AsyncRaise(t)
    \/ \E t \in Threads : PWReturn(t)

SpecWork == InitWork /\ [][NextWork]_vars

\* the pending-call ring under submissions from every thread, the threads
\* taking turns at the lock
NextQueue ==
    \/ \E s, t \in Threads : NewThread(s, t)
    \/ \E t \in Threads : AcquireThread(t)
    \/ RequestDrop
    \/ \E s \in Threads : Submit(s, MaxSubmit)
    \/ \E t \in Threads : PWEnter(t)
    \/ \E t \in Threads : PWPending(t)
    \/ \E t \in Threads : PWDrain(t)
    \/ \E t \in Threads : PWGetTstate(t)
    \/ \E t \in Threads : PulseCheck(t)
    \/ \E t \in Threads : PulseSwapOut(t)
    \/ \E t \in Threads : PulseDrop(t)
    \/ \E t \in Threads : PulseTake(t)
    \/ \E t \in Threads : PulseFinalizing(t)
    \/ \E t \in Threads : PulseSwapIn(t)
    \/ \E t \in Threads : AsyncTest(t)
    \/ \E t \in Threads : PWReturn(t)

SpecQueue == InitWork /\ [][NextQueue]_vars

\* one statement of thread t's periodic work check, or its return to the
\* bytecode loop that leads to the next safe point
SafePointStep(t) ==
    \/ PWEnter(t)
    \/ PWPending(t)
    \/ PWDrain(t)
    \/ PWGetTstate(t)
    \/ PulseCheck(t)
    \/ AsyncTest(t)
    \/ AsyncRead(t)
    \/ AsyncClear(t)
    \/ AsyncUnsignal(t)
    \/ AsyncRaise(t)
    \/ PWReturn(t)

\* the main thread alone, holding the lock throughout, under submissions and
\* signals from outside the interpreter
NextLive ==
    \/ \E s \in Threads : Submit(s, MaxCalls)
    \/ \E t \in Threads, e \in Exceptions : Signal(t, e)
    \/ \E t \in Threads : SafePointStep(t)

\* a thread that holds the lock and is not blocked keeps executing: its next
\* statement is eventually taken; submissions and signals may stop coming
SpecLive ==
    /\ InitWork
    /\ [][NextLive]_vars
    /\ \A t \in Threads : WF_vars(SafePointStep(t))

(* ============================== claims ================================= *)

FirstThreadCreated == \E t \in Threads : pc[t] # "none"

FullModule == module.present /\ module.exports = {"EvalFrame", "JitInit"}

\* C1: once installation is over, a module that is absent, or loaded without
\* the evaluator entry point, leaves the default evaluator installed, and
\* every frame run afterwards is run by the default evaluator.
C1_DefaultWhenNoEvaluator ==
    (ipc \in {"newThread", "done"}
        /\ (~module.present \/ "EvalFrame" \notin module.exports))
    => /\ eval_frame = DefaultEvalFrame
       /\ \A t \in Threads :
            frame[t].active => frame[t].returned.by = DefaultEvalFrame

\* C2: a module that exports the evaluator but not the initialization
\* callback is treated as absent: no callback runs, the default evaluator
\* stays installed and start-up goes on to the first thread state without
\* the process dying on the way.
C2_MissingInitTreatedAsAbsent ==
    (module.present /\ module.exports = {"EvalFrame"})
    => /\ fatal # "null call"
       /\ jitInitCalls = 0
       /\ ipc \in {"newThread", "done"} => eval_frame = DefaultEvalFrame

\* C3: with a module that exports both entry points, by the time the first
\* thread state exists the alternate evaluator is installed and the
\* initialization callback has run exactly once, and it never runs again.
C3_InstalledAndInitialisedOnce ==
    (FullModule /\ FirstThreadCreated)
    => (eval_frame = "Alt" /\ jitInitCalls = 1)

C3_Witness ==
    FullModule /\ ipc = "done" /\ pc[2] = "run" /\ jitInitCalls = 1

\* C4: with an alternate evaluator installed, every frame execution asked
\* of PyEval_EvalFrameEx, on any thread, is run by that evaluator on the
\* frame and resume flag the caller gave, and the caller gets back exactly
\* what the evaluator produced.
C4_EveryFrameThroughInstalled ==
    (ipc = "done" /\ eval_frame = "Alt")
    => \A t \in Threads :
         frame[t].active =>
            frame[t].returned = Evaluate("Alt", frame[t].reqF, frame[t].reqFlag)

C4_Witness ==
    /\ eval_frame = "Alt"
    /\ frame[2].active
    /\ frame[2].reqF = "f2" /\ frame[2].reqFlag = 1
    /\ frame[2].returned.by = "Alt"

\* C5: once the first thread state exists, no step writes the installed
\* evaluator reference.
C5_EvalFrameNeverWrittenAfterFirstThread ==
    [][FirstThreadCreated => eval_frame' = eval_frame]_vars

C5_Witness ==
    /\ pc[1] = "frame" /\ pc[2] = "wait"
    /\ module.present /\ eval_frame # DefaultEvalFrame

Rank(stage) ==
    CASE stage = "drain" -> 1
      [] stage = "pulse" -> 2
      [] stage = "async" -> 3

PulsePcs == {"pulse_check", "pulse_swap", "pulse_drop", "pulse_take",
             "pulse_fin", "pulse_reswap"}

AsyncPcs == {"ae_test", "ae_read", "ae_clear", "ae_unsignal", "ae_raise"}

\* C7: inside one check that found the attention flag set, the draining of
\* pending calls is over before the lock handshake starts, and the handshake
\* (its finalization check included) is over before the thread's async
\* exception slot is looked at.
C7_StagesInOrder ==
    \A t \in Threads :
        /\ \A i, j \in 1..Len(steps[t]) :
              i < j => Rank(steps[t][i]) < Rank(steps[t][j])
        /\ pc[t] = "pw_drain" =>
              \A i \in 1..Len(steps[t]) : steps[t][i] = "drain"
        /\ pc[t] \in PulsePcs =>
              \A i \in 1..Len(steps[t]) : steps[t][i] # "async"

C7_Witness ==
    \E t \in Threads :
        /\ steps[t] = <<"drain", "pulse", "async">>
        /\ pc[t] = "ret" /\ ret[t] = 1
        /\ executed # <<>>
        /\ pc[3 - t] = "wait"

Submissions == executed \o queue

\* C8: whatever the interleaving of submissions and drains, no accepted call
\* is dropped, none is run twice, none is run that is still on the ring, and
\* the calls of one submitter run in the order it submitted them.
C8_ExactlyOnceInOrder ==
    /\ \A i, j \in 1..Len(Submissions) :
          (i < j /\ Submissions[i].s = Submissions[j].s)
             => Submissions[i].n < Submissions[j].n
    /\ \A s \in Threads :
          {Submissions[i].n : i \in {k \in 1..Len(Submissions) :
                                        Submissions[k].s = s}}
             = 1..submitted[s]

C8_Witness ==
    /\ Len(executed) = 3 /\ queue = <<>>
    /\ executed[1].s = executed[3].s /\ executed[1].s # executed[2].s
    /\ \E t \in Threads : curexc[t] = "CallError"

\* C9: a pending call that fails ends the check there and then: it returns
\* 1 with the call's failure as the error set, having done no lock
\* handshake and not having touched the thread's async-exception slot.
C9_FailedCallAborts ==
    \A t \in Threads :
        curexc[t] = "CallError"
        => /\ pc[t] = "ret" /\ ret[t] = 1
           /\ steps[t] = <<"drain">>
           /\ exc[t] = "NULL"
           /\ resignaled[t] = "NULL" => async_exc[t] = atEntry[t]

C9_Witness ==
    \E t \in Threads :
        /\ pc[t] = "ret" /\ curexc[t] = "CallError"
        /\ async_exc[t] # "NULL" /\ gil_drop_request

ReleasePending(t) ==
    /\ gil_drop_request /\ gil_holder = t
    /\ pc[t] \in {"run", "pw_pending", "pw_drain", "pw_tstate", "pulse_check"}

\* the handshake once begun: out of it only through having released the lock
\* (pulse_take is entered with the lock free) and having taken it again
HandshakeStep(t) ==
    /\ (pc[t] = "pulse_swap" /\ pc'[t] # pc[t])
          => (pc'[t] = "pulse_drop" /\ gil_holder' = t)
    /\ (pc[t] = "pulse_drop" /\ pc'[t] # pc[t])
          => (pc'[t] = "pulse_take" /\ gil_holder' = NoThread)
    /\ pc[t] = "pulse_take" => gil_holder # t
    /\ (pc[t] = "pulse_take" /\ pc'[t] # pc[t])
          => (pc'[t] = "pulse_fin" /\ gil_holder = NoThread /\ gil_holder' = t)
    /\ (pc[t] = "pulse_fin" /\ pc'[t] # pc[t])
          => \/ pc'[t] = "pulse_reswap" /\ gil_holder' = t
             \/ pc'[t] = "exited"
    /\ (pc[t] = "pulse_reswap" /\ pc'[t] # pc[t])
          => (pc'[t] = "ae_test" /\ gil_holder' = t)

\* a waiter can take the lock whenever a thread in the handshake has let go
\* of it and nobody has taken it yet
WaiterCanAcquire ==
    \A t, w \in Threads :
        (pc[t] = "pulse_take" /\ gil_holder = NoThread /\ pc[w] = "wait")
        => ENABLED AcquireThread(w)

\* C12 as stated: if lock release is requested while thread T holds the
\* lock, T gets past its next safe point only by releasing the lock and
\* taking it again, and a thread waiting for the lock in that window can
\* take it before T does.
C12_AsStated ==
    /\ []WaiterCanAcquire
    /\ [][\A t \in Threads :
            /\ ReleasePending(t) =>
                  (ReleasePending(t)' \/ pc'[t] = "pulse_swap")
            /\ HandshakeStep(t)]_vars

\* C12 as amended: the same, except that a pending call failing in the check
\* makes the check return must_abort before the handshake, the lock kept and
\* the request still set.
C12_ReleasedAndReacquired ==
    /\ []WaiterCanAcquire
    /\ [][\A t \in Threads :
            /\ ReleasePending(t) =>
                  \/ ReleasePending(t)'
                  \/ pc'[t] = "pulse_swap"
                  \/ /\ pc[t] = "pw_drain" /\ pc'[t] = "ret"
                     /\ ret'[t] = 1 /\ curexc'[t] = "CallError"
                     /\ gil_holder' = t /\ gil_drop_request'
            /\ HandshakeStep(t)]_vars

C12_Witness ==
    \E t, w \in Threads :
        /\ t # w /\ pc[t] = "pulse_take" /\ gil_holder = w /\ pc[w] = "run"
        /\ tstate_current = w

\* thread t is not the finalizing thread of a finalization under way
OtherIsFinalizing(t) == finalizing # NoThread /\ finalizing # t

\* C13 as stated: once finalization has begun and names F, any other thread
\* that reaches the lock handshake of a check terminates there: it never
\* gets past the handshake to the rest of the check or to its return.
C13_AsStated ==
    \A t \in Threads :
        (OtherIsFinalizing(t)
            /\ \E i \in 1..Len(steps[t]) : steps[t][i] = "pulse")
        => pc[t] \in PulsePcs

\* C13 as amended: once finalization has begun and names F, any other thread
\* that goes through the handshake with release requested, so that it lets
\* go of the lock and takes it again, terminates on taking it: it releases
\* the lock, is never made the current thread again, never returns from the
\* check and does not hold the lock once terminated; F itself goes on from
\* the handshake to make itself current and finish the check.
C13_OthersExitOnReacquire ==
    /\ [](\A t \in Threads :
            /\ pc[t] = "pulse_reswap" => ~OtherIsFinalizing(t)
            /\ pc[t] = "exited" =>
                  (gil_holder # t /\ tstate_current # t /\ finalizing # t
                      /\ finalizing # NoThread))
    /\ [][\A t \in Threads :
            /\ (pc[t] = "pulse_fin" /\ pc'[t] # pc[t] /\ OtherIsFinalizing(t))
                  => /\ pc'[t] = "exited"
                     /\ gil_holder = t /\ gil_holder' = NoThread
                     /\ tstate_current' = NoThread
            /\ (pc[t] = "pulse_fin" /\ pc'[t] # pc[t] /\ finalizing = t)
                  => (pc'[t] = "pulse_reswap" /\ gil_holder' = t)
            /\ (pc[t] = "pulse_reswap" /\ pc'[t] # pc[t] /\ finalizing = t)
                  => (pc'[t] = "ae_test" /\ tstate_current' = t)
            /\ pc[t] = "exited" => pc'[t] = "exited"]_vars

C13_Witness ==
    \E f, t \in Threads :
        /\ finalizing = f /\ t # f
        /\ pc[t] = "exited" /\ pc[f] = "pulse_reswap" /\ gil_holder = f
        /\ tstate_current = NoThread

\* the positions of a thread at which it needs the lock: everywhere it runs
\* except between drop_gil and take_gil of the handshake
LockPcs ==
    {"run", "frame", "ret", "pw_pending", "pw_drain", "pw_tstate",
     "pulse_check", "pulse_swap", "pulse_drop", "pulse_fin", "pulse_reswap"}
    \cup AsyncPcs

\* C14: at most one thread is at a position that needs the Global Execution
\* Lock and that thread is the one holding it; a thread running managed
\* code (past its safe point) holds the lock and is the current thread.
C14_MutualExclusion ==
    /\ \A t \in Threads : pc[t] \in LockPcs => gil_holder = t
    /\ \A t, u \in Threads :
          (pc[t] \in LockPcs /\ pc[u] \in LockPcs) => t = u
    /\ \A t \in Threads :
          pc[t] \in {"run", "frame"} => (gil_holder = t /\ tstate_current = t)
    /\ gil_holder # NoThread => pc[gil_holder] \in LockPcs

C14_Witness ==
    \E t, u \in Threads :
        /\ pc[t] = "pulse_take" /\ pc[u] = "pulse_reswap" /\ gil_holder = u
        /\ finalizing = u

\* some thread's async-exception slot holds a signaled, unconsumed exception
SlotSignaled == \E t \in Threads : Created(t) /\ async_exc[t] # "NULL"

\* C16: in every reachable state, if lock release is requested, or pending
\* calls are queued, or some thread's async-exception slot holds a signaled
\* exception not yet consumed, then the attention flag is true.
C16_AttentionFlagCovers ==
    (gil_drop_request \/ pendingcalls_to_do \/ queue # <<>> \/ SlotSignaled)
    => eval_breaker

\* what a check may not touch when it has nothing to do: the ring, the lock,
\* the current thread, the slots, the flags, the error indicator
Untouched ==
    UNCHANGED <<queue_vars, gil_vars, async_exc, flag_vars, finalizing,
                fatal, tstate, exc, ret, curexc, steps>>

\* C18: a check that reads the attention flag false returns continue at
\* once and changes nothing: no pending call is run, the lock is neither
\* released nor taken, the current thread stays, and the thread's
\* async-exception slot is neither read nor cleared.
C18_FastPathNoOp ==
    [][\A t \in Threads :
          /\ (pc[t] = "run" /\ pc'[t] \notin {"run", "frame"}
                 /\ ~eval_breaker)
                => (pc'[t] = "ret" /\ ret'[t] = 0 /\ exc'[t] = "NULL"
                       /\ Untouched)
          /\ (pc[t] = "ret" /\ steps[t] = <<>> /\ pc'[t] # pc[t])
                => (pc'[t] = "run" /\ ret[t] = 0 /\ curexc[t] = "NULL"
                       /\ exc[t] = "NULL" /\ gil_holder' = t
                       /\ UNCHANGED <<queue_vars, gil_vars, async_exc,
                                      flag_vars, finalizing, fatal>>)]_vars

C18_Witness ==
    \E t \in Threads :
        /\ pc[t] = "ret" /\ steps[t] = <<>> /\ ret[t] = 0
        /\ ~eval_breaker /\ async_exc[t] # "NULL" /\ atEntry[t] # "NULL"
        /\ pc[3 - t] = "wait"

\* C19: a handshake that finds no release request does nothing: the thread
\* keeps the lock, stays the current thread, and goes straight on to the
\* async-exception step; it does not wait and it does not terminate, even
\* with another thread finalizing.
C19_NoRequestNoHandshake ==
    /\ [](\A t \in Threads :
            (pc[t] = "pulse_check" /\ ~gil_drop_request /\ Alive)
            => ENABLED PulseCheck(t))
    /\ [][\A t \in Threads :
            (pc[t] = "pulse_check" /\ pc'[t] # pc[t] /\ ~gil_drop_request)
            => /\ pc'[t] = "ae_test"
               /\ gil_holder = t /\ tstate_current = t
               /\ UNCHANGED <<gil_vars, flag_vars, finalizing, fatal,
                              async_exc, queue_vars>>]_vars

C19_Witness ==
    \E t \in Threads :
        /\ pc[t] = "ae_test" /\ OtherIsFinalizing(t)
        /\ gil_holder = t /\ tstate_current = t
        /\ pc[3 - t] = "pulse_take"

NoHandshakeFatal ==
    fatal \notin {"ceval: tstate mix-up", "ceval: orphan tstate"}

\* C20 as stated: a thread entering the handshake with the release request
\* set is the current thread; the current-thread identity is empty for the
\* whole time that thread does not hold the lock, and still empty when the
\* thread makes itself current again; neither "tstate mix-up" nor "orphan
\* tstate" is reachable.
C20_AsStated ==
    /\ \A t \in Threads :
          /\ pc[t] = "pulse_swap" => (tstate_current = t /\ tstate[t] = t)
          /\ pc[t] = "pulse_take" => tstate_current = NoThread
          /\ pc[t] = "pulse_reswap" => tstate_current = NoThread
    /\ NoHandshakeFatal

\* C20 as amended: a thread entering the handshake with the release request
\* set is the current thread; for the whole time that thread does not hold
\* the lock the current-thread identity is never that thread: it is empty
\* while nobody holds the lock and otherwise empty or the lock's holder; it
\* is empty from the thread's reacquiring the lock until the thread makes
\* itself current again; neither "tstate mix-up" nor "orphan tstate" is
\* reachable.
C20_CurrentFollowsLock ==
    /\ \A t \in Threads :
          /\ pc[t] = "pulse_swap" => (tstate_current = t /\ tstate[t] = t)
          /\ pc[t] = "pulse_take" =>
                /\ tstate_current # t
                /\ tstate_current \in {NoThread, gil_holder}
          /\ pc[t] \in {"pulse_drop", "pulse_fin", "pulse_reswap"} =>
                (tstate_current = NoThread /\ tstate[t] = t)
    /\ NoHandshakeFatal

C20_Witness ==
    \E t, u \in Threads :
        /\ pc[t] = "pulse_take" /\ pc[u] = "pulse_swap"
        /\ tstate_current = u /\ gil_holder = u /\ gil_drop_request

\* C11: if a second exception is signaled for thread T while the first is
\* still in T's slot and T has reached no safe point in between, then the
\* check that consumes the slot raises the second and not the first, and
\* leaves the slot empty, so that the second is raised once; the first is
\* never raised.
C11_OnlySecondRaised ==
    \A t \in Threads :
        (arrival[t] \in Exceptions /\ resignaled[t] = "NULL")
        => /\ curexc[t] # arrival[t]
           /\ exc[t] # arrival[t]
           /\ async_exc[t] # arrival[t]
           /\ (pc[t] = "ret" /\ curexc[t] \in Exceptions)
                 => /\ ret[t] = 1
                    /\ curexc[t] = atEntry[t]
                    /\ async_exc[t] = "NULL"
           /\ (pc[t] = "ret" /\ curexc[t] # "CallError")
                 => curexc[t] \in Exceptions

C11_Witness ==
    \E t \in Threads :
        /\ pc[t] = "ret" /\ ret[t] = 1
        /\ arrival[t] = "E1" /\ curexc[t] = "E2"
        /\ async_exc[t] = "NULL" /\ resignaled[t] = "NULL"

\* C15: an exception signaled for a thread while its check runs is never
\* lost: when the check returns, the exception last signaled during it is
\* the one the check raised, or it is in the slot with the attention flag
\* set.
C15_ResignalNeverLost ==
    \A t \in Threads :
        (pc[t] = "ret" /\ resignaled[t] # "NULL")
        => \/ curexc[t] = resignaled[t]
           \/ async_exc[t] = resignaled[t] /\ eval_breaker

\* C17: under fair scheduling of a thread that keeps reaching safe points,
\* an async exception signaled for it does not stay in its slot for ever (it
\* is consumed by a check that raises it, or a later signal puts another in
\* its place), and a queued pending call is eventually executed.
C17_EventuallyServiced ==
    /\ \A t \in Threads : \A e \in Exceptions :
           (async_exc[t] = e) ~> (async_exc[t] # e)
    /\ (queue # <<>>) ~> (queue = <<>>)

\* the pending-call half of C17 alone
C17_CallsEventuallyExecuted ==
    \A n \in 1..MaxCalls : (Len(queue) + Len(executed) >= n)
                               ~> (Len(executed) >= n)

\* the last sentence of C17: an exception still in the slot after a check
\* that a failing pending call cut short leaves the slot later on
C17_RaisedAfterFailedCall ==
    \A t \in Threads : \A e \in Exceptions :
        (pc[t] = "ret" /\ curexc[t] = "CallError" /\ async_exc[t] = e)
        ~> (async_exc[t] # e)

====
